---- MODULE Spec2Model ----
(***************************************************************************)
(* Model of server/initializers/constants.ts: the evaluation of the module *)
(* (constant declarations, the CONFIG object, the test-instance overrides, *)
(* the first updateWebserverConfig call) followed by any number of         *)
(* reloadConfig calls, while the configuration on disk is edited by the    *)
(* administrator.                                                          *)
(*                                                                         *)
(* Strings that the module builds or normalises are sequences of tokens    *)
(* (scheme, "://", hostname, ":", the decimal digits of a port, "/"), so   *)
(* that concatenation and suffix stripping are computed, not assumed.      *)
(* Objects are functions from dotted paths to values.                      *)
(***************************************************************************)
EXTENDS Integers, Sequences, FiniteSets, TLC

VARIABLES
    pc,             \* position in the evaluation of the module
    disk,           \* the configuration as it stands on disk
    requireCache,   \* require.cache: resolved module name -> loaded exports
    config,         \* `let config' (line 11): the loaded configuration
    configSources,  \* config.util.getConfigSources(): names of the sources
    env,            \* process.env: NODE_ENV, NODE_APP_INSTANCE, NODE_CONFIG_DIR
    testInstance,   \* what isTestInstance() returns in this process
    consts,         \* every exported constant but CONFIG and the tables
    tables,         \* the enumeration tables, as lists of <<key, value>>
    CONFIG,         \* the eagerly evaluated properties of CONFIG
    reloaded        \* history: reloadConfig has returned at least once

vars == <<pc, disk, requireCache, config, configSources, env, testInstance,
          consts, tables, CONFIG, reloaded>>

---------------------------------------------------------------------------
(* Bounds of the model *)

\* The number of different contents the configuration files take
MaxVersion == 2

---------------------------------------------------------------------------
(* The configuration on disk *)

Hostnames == <<"example.com", "localhost", "peertube.example", "videos.example">>

Ports == {80, 443, 9000}

\* One content of the configuration files: every setting the module reads.
Snapshot(v, https, port) ==
    [k \in {"webserver.https"} |-> https]
    @@ [k \in {"webserver.port"} |-> port]
    @@ [k \in {"webserver.hostname"} |-> Hostnames[v]]
    @@ [k \in {"listen.port", "database.port", "signup.limit", "user.video_quota",
               "transcoding.threads", "cache.previews.size"} |->
           CASE k = "listen.port" -> 9000 + v
             [] k = "database.port" -> 5432 + v
             [] k = "signup.limit" -> 10 * v
             [] k = "user.video_quota" -> v - 2
             [] k = "transcoding.threads" -> v
             [] OTHER -> 100 * v]
    @@ [k \in {"signup.enabled", "transcoding.enabled",
               "transcoding.resolutions.240p", "transcoding.resolutions.360p",
               "transcoding.resolutions.480p", "transcoding.resolutions.720p",
               "transcoding.resolutions.1080p"} |->
           CASE k = "signup.enabled" -> v % 2 = 1
             [] k = "transcoding.enabled" -> v % 2 = 0
             [] k = "transcoding.resolutions.240p" -> v % 2 = 1
             [] k = "transcoding.resolutions.360p" -> v % 2 = 0
             [] k = "transcoding.resolutions.480p" -> v % 3 = 1
             [] k = "transcoding.resolutions.720p" -> v % 3 = 2
             [] OTHER -> v % 3 = 0]
    @@ [k \in {"database.suffix", "database.hostname", "database.username",
               "database.password", "admin.email",
               "storage.avatars", "storage.logs", "storage.videos",
               "storage.thumbnails", "storage.previews", "storage.torrents",
               "storage.cache"} |->
           CASE k = "database.suffix" -> <<"_v", v>>
             [] k = "database.hostname" -> <<"db", v, ".example">>
             [] k = "database.username" -> <<"peertube", v>>
             [] k = "database.password" -> <<"secret", v>>
             [] k = "admin.email" -> <<"admin", v, "@example.com">>
             [] OTHER -> <<"storage", v, k>>]

Snapshots ==
    {Snapshot(v, https, port) : v \in 1..MaxVersion, https \in BOOLEAN, port \in Ports}

\* config.get(path) on a loaded configuration
get(cfg, path) == cfg[path]

---------------------------------------------------------------------------
(* Strings and paths *)

\* A number inside a string concatenation: its decimal digits (line 425).
RECURSIVE Digits(_)
Digits(n) ==
    LET d == <<"0", "1", "2", "3", "4", "5", "6", "7", "8", "9">>[(n % 10) + 1]
    IN  IF n < 10 THEN <<d>> ELSE Digits(n \div 10) \o <<d>>

EndsWith(s, suffix) ==
    /\ Len(s) >= Len(suffix)
    /\ SubSeq(s, Len(s) - Len(suffix) + 1, Len(s)) = suffix

\* fileName.indexOf(directory) !== -1, on paths as sequences of segments
Contains(s, sub) ==
    \E i \in 0..(Len(s) - Len(sub)) : SubSeq(s, i + 1, i + Len(sub)) = sub

\* path.join and path.dirname, on paths as sequences of segments
join(dir, name) == Append(dir, name)

dirname(path) == SubSeq(path, 1, Len(path) - 1)

\* root() of helpers/core-utils: the directory of the installation
root == <<"srv", "peertube">>

\* buildPath of helpers/core-utils, on the relative paths of the model
buildPath(path) == root \o path

\* sanitizeUrl of helpers/core-utils: the port is dropped when it is the
\* default one of the URL's own scheme, the URL is serialised with its root
\* path, and the trailing slash is removed.
sanitizeUrl(url) ==
    LET scheme  == url[1]
        port    == SubSeq(url, 5, Len(url))
        default == \/ scheme = "https" /\ port = Digits(443)
                   \/ scheme = "http" /\ port = Digits(80)
        href    == (IF default THEN SubSeq(url, 1, 3) ELSE url) \o <<"/">>
    IN  IF href[Len(href)] = "/" THEN SubSeq(href, 1, Len(href) - 1) ELSE href

\* sanitizeHost of helpers/core-utils: a trailing ":<default port of the
\* remote scheme>" is removed from the host.
sanitizeHost(host, remoteScheme) ==
    LET toRemove == IF remoteScheme = "https" THEN 443 ELSE 80
        suffix   == <<":">> \o Digits(toRemove)
    IN  IF EndsWith(host, suffix)
        THEN SubSeq(host, 1, Len(host) - Len(suffix))
        ELSE host

---------------------------------------------------------------------------
(* The constants declared before CONFIG (lines 15-83) *)

EarlyConstants ==
    ("LAST_MIGRATION_VERSION" :> 175)
    @@ ("API_VERSION" :> "v1")
    @@ ("PAGINATION_COUNT_DEFAULT" :> 15)
    @@ ("SORTABLE_COLUMNS.USERS" :> <<"id", "username", "createdAt">>)
    @@ ("SORTABLE_COLUMNS.ACCOUNTS" :> <<"createdAt">>)
    @@ ("SORTABLE_COLUMNS.JOBS" :> <<"id", "createdAt">>)
    @@ ("SORTABLE_COLUMNS.VIDEO_ABUSES" :> <<"id", "createdAt">>)
    @@ ("SORTABLE_COLUMNS.VIDEO_CHANNELS" :> <<"id", "name", "updatedAt", "createdAt">>)
    @@ ("SORTABLE_COLUMNS.VIDEOS" :> <<"name", "duration", "createdAt", "views", "likes">>)
    @@ ("SORTABLE_COLUMNS.VIDEO_COMMENT_THREADS" :> <<"createdAt">>)
    @@ ("SORTABLE_COLUMNS.BLACKLISTS" :>
            <<"id", "name", "duration", "views", "likes", "dislikes", "uuid", "createdAt">>)
    @@ ("SORTABLE_COLUMNS.FOLLOWERS" :> <<"createdAt">>)
    @@ ("SORTABLE_COLUMNS.FOLLOWING" :> <<"createdAt">>)
    @@ ("OAUTH_LIFETIME.ACCESS_TOKEN" :> 3600 * 4)
    @@ ("OAUTH_LIFETIME.REFRESH_TOKEN" :> 1209600)
    @@ ("ACTOR_FOLLOW_SCORE.PENALTY" :> -10)
    @@ ("ACTOR_FOLLOW_SCORE.BONUS" :> 10)
    @@ ("ACTOR_FOLLOW_SCORE.BASE" :> 1000)
    @@ ("ACTOR_FOLLOW_SCORE.MAX" :> 10000)
    @@ ("REMOTE_SCHEME.HTTP" :> "https")
    @@ ("REMOTE_SCHEME.WS" :> "wss")
    @@ ("JOBS_FETCH_LIMIT_PER_CYCLE.transcoding" :> 10)
    @@ ("JOBS_FETCH_LIMIT_PER_CYCLE.httpRequest" :> 20)
    @@ ("JOBS_FETCHING_INTERVAL" :> 60000)
    @@ ("SCHEDULER_INTERVAL" :> 60000 * 60)

FOLLOW_STATES == << <<"PENDING", "pending">>, <<"ACCEPTED", "accepted">> >>

JOB_STATES ==
    << <<"PENDING", "pending">>, <<"PROCESSING", "processing">>,
       <<"ERROR", "error">>, <<"SUCCESS", "success">> >>

JOB_CATEGORIES ==
    << <<"TRANSCODING", "transcoding">>, <<"ACTIVITYPUB_HTTP", "activitypub-http">> >>

EarlyTables ==
    [FOLLOW_STATES |-> FOLLOW_STATES, JOB_STATES |-> JOB_STATES,
     JOB_CATEGORIES |-> JOB_CATEGORIES]

---------------------------------------------------------------------------
(* The constants declared after CONFIG (lines 146-351) *)

VIDEO_RATE_TYPES == << <<"LIKE", "like">>, <<"DISLIKE", "dislike">> >>

VIDEO_CATEGORIES ==
    << <<1, "Music">>, <<2, "Films">>, <<3, "Vehicles">>, <<4, "Art">>,
       <<5, "Sports">>, <<6, "Travels">>, <<7, "Gaming">>, <<8, "People">>,
       <<9, "Comedy">>, <<10, "Entertainment">>, <<11, "News">>, <<12, "How To">>,
       <<13, "Education">>, <<14, "Activism">>, <<15, "Science & Technology">>,
       <<16, "Animals">>, <<17, "Kids">>, <<18, "Food">> >>

VIDEO_LICENCES ==
    << <<1, "Attribution">>, <<2, "Attribution - Share Alike">>,
       <<3, "Attribution - No Derivatives">>, <<4, "Attribution - Non Commercial">>,
       <<5, "Attribution - Non Commercial - Share Alike">>,
       <<6, "Attribution - Non Commercial - No Derivatives">>,
       <<7, "Public Domain Dedication">> >>

VIDEO_LANGUAGES ==
    << <<1, "English">>, <<2, "Spanish">>, <<3, "Mandarin">>, <<4, "Hindi">>,
       <<5, "Arabic">>, <<6, "Portuguese">>, <<7, "Bengali">>, <<8, "Russian">>,
       <<9, "Japanese">>, <<10, "Punjabi">>, <<11, "German">>, <<12, "Korean">>,
       <<13, "French">>, <<14, "Italian">> >>

\* The members of the VideoPrivacy enumeration of shared/models/videos
VideoPrivacy == [PUBLIC |-> 1, UNLISTED |-> 2, PRIVATE |-> 3]

VIDEO_PRIVACIES ==
    << <<VideoPrivacy.PUBLIC, "Public">>, <<VideoPrivacy.UNLISTED, "Unlisted">>,
       <<VideoPrivacy.PRIVATE, "Private">> >>

VIDEO_MIMETYPE_EXT ==
    << <<"video/webm", ".webm">>, <<"video/ogg", ".ogv">>, <<"video/mp4", ".mp4">> >>

AVATAR_MIMETYPE_EXT ==
    << <<"image/png", ".png">>, <<"image/jpg", ".jpg">>, <<"image/jpeg", ".jpg">> >>

ACTIVITY_PUB_ACTOR_TYPES ==
    << <<"GROUP", "Group">>, <<"PERSON", "Person">>, <<"APPLICATION", "Application">> >>

LateTables ==
    [VIDEO_RATE_TYPES |-> VIDEO_RATE_TYPES, VIDEO_CATEGORIES |-> VIDEO_CATEGORIES,
     VIDEO_LICENCES |-> VIDEO_LICENCES, VIDEO_LANGUAGES |-> VIDEO_LANGUAGES,
     VIDEO_PRIVACIES |-> VIDEO_PRIVACIES, VIDEO_MIMETYPE_EXT |-> VIDEO_MIMETYPE_EXT,
     AVATAR_MIMETYPE_EXT |-> AVATAR_MIMETYPE_EXT,
     ACTIVITY_PUB_ACTOR_TYPES |-> ACTIVITY_PUB_ACTOR_TYPES]

POTENTIAL_ACCEPT_HEADERS ==
    <<"application/activity+json", "application/ld+json",
      "application/ld+json; profile=\"https://www.w3.org/ns/activitystreams\"">>

CONSTRAINTS_FIELDS ==
    ("CONSTRAINTS_FIELDS.USERS.USERNAME" :> [min |-> 3, max |-> 20])
    @@ ("CONSTRAINTS_FIELDS.USERS.PASSWORD" :> [min |-> 6, max |-> 255])
    @@ ("CONSTRAINTS_FIELDS.USERS.VIDEO_QUOTA" :> [min |-> -1])
    @@ ("CONSTRAINTS_FIELDS.VIDEO_ABUSES.REASON" :> [min |-> 2, max |-> 300])
    @@ ("CONSTRAINTS_FIELDS.VIDEO_CHANNELS.NAME" :> [min |-> 3, max |-> 120])
    @@ ("CONSTRAINTS_FIELDS.VIDEO_CHANNELS.DESCRIPTION" :> [min |-> 3, max |-> 250])
    @@ ("CONSTRAINTS_FIELDS.VIDEO_CHANNELS.URL" :> [min |-> 3, max |-> 2000])
    @@ ("CONSTRAINTS_FIELDS.VIDEOS.NAME" :> [min |-> 3, max |-> 120])
    @@ ("CONSTRAINTS_FIELDS.VIDEOS.TRUNCATED_DESCRIPTION" :> [min |-> 3, max |-> 250])
    @@ ("CONSTRAINTS_FIELDS.VIDEOS.DESCRIPTION" :> [min |-> 3, max |-> 3000])
    @@ ("CONSTRAINTS_FIELDS.VIDEOS.EXTNAME" :> <<".mp4", ".ogv", ".webm">>)
    @@ ("CONSTRAINTS_FIELDS.VIDEOS.INFO_HASH" :> [min |-> 40, max |-> 40])
    @@ ("CONSTRAINTS_FIELDS.VIDEOS.DURATION" :> [min |-> 1])
    @@ ("CONSTRAINTS_FIELDS.VIDEOS.TAGS" :> [min |-> 0, max |-> 5])
    @@ ("CONSTRAINTS_FIELDS.VIDEOS.TAG" :> [min |-> 2, max |-> 30])
    @@ ("CONSTRAINTS_FIELDS.VIDEOS.THUMBNAIL" :> [min |-> 2, max |-> 30])
    @@ ("CONSTRAINTS_FIELDS.VIDEOS.THUMBNAIL_DATA" :> [min |-> 0, max |-> 20000])
    @@ ("CONSTRAINTS_FIELDS.VIDEOS.VIEWS" :> [min |-> 0])
    @@ ("CONSTRAINTS_FIELDS.VIDEOS.LIKES" :> [min |-> 0])
    @@ ("CONSTRAINTS_FIELDS.VIDEOS.DISLIKES" :> [min |-> 0])
    @@ ("CONSTRAINTS_FIELDS.VIDEOS.FILE_SIZE" :> [min |-> 10])
    @@ ("CONSTRAINTS_FIELDS.VIDEOS.URL" :> [min |-> 3, max |-> 2000])
    @@ ("CONSTRAINTS_FIELDS.ACTORS.PUBLIC_KEY" :> [min |-> 10, max |-> 5000])
    @@ ("CONSTRAINTS_FIELDS.ACTORS.PRIVATE_KEY" :> [min |-> 10, max |-> 5000])
    @@ ("CONSTRAINTS_FIELDS.ACTORS.URL" :> [min |-> 3, max |-> 2000])
    @@ ("CONSTRAINTS_FIELDS.ACTORS.AVATAR.EXTNAME" :> <<".png", ".jpeg", ".jpg">>)
    @@ ("CONSTRAINTS_FIELDS.ACTORS.AVATAR.FILE_SIZE.max" :> 2 * 1024 * 1024)
    @@ ("CONSTRAINTS_FIELDS.VIDEO_EVENTS.COUNT" :> [min |-> 0])
    @@ ("CONSTRAINTS_FIELDS.VIDEO_COMMENTS.TEXT" :> [min |-> 2, max |-> 3000])
    @@ ("CONSTRAINTS_FIELDS.VIDEO_COMMENTS.URL" :> [min |-> 3, max |-> 2000])

ACTIVITY_PUB ==
    ("ACTIVITY_PUB.POTENTIAL_ACCEPT_HEADERS" :> POTENTIAL_ACCEPT_HEADERS)
    @@ ("ACTIVITY_PUB.ACCEPT_HEADER" :> "application/activity+json, application/ld+json")
    @@ ("ACTIVITY_PUB.PUBLIC" :> "https://www.w3.org/ns/activitystreams#Public")
    @@ ("ACTIVITY_PUB.COLLECTION_ITEMS_PER_PAGE" :> 10)
    @@ ("ACTIVITY_PUB.FETCH_PAGE_LIMIT" :> 100)
    @@ ("ACTIVITY_PUB.MAX_HTTP_ATTEMPT" :> 5)
    @@ ("ACTIVITY_PUB.URL_MIME_TYPES.VIDEO" :> <<"video/mp4", "video/webm", "video/ogg">>)
    @@ ("ACTIVITY_PUB.URL_MIME_TYPES.TORRENT" :> <<"application/x-bittorrent">>)
    @@ ("ACTIVITY_PUB.URL_MIME_TYPES.MAGNET" :>
            <<"application/x-bittorrent;x-scheme-handler/magnet">>)
    @@ ("ACTIVITY_PUB.MAX_RECURSION_COMMENTS" :> 100)
    @@ ("ACTIVITY_PUB.ACTOR_REFRESH_INTERVAL" :> 3600 * 24 * 1000)

\* cfgObject is CONFIG as built so far: CACHE reads CONFIG.STORAGE.CACHE_DIR.
LateConstants(cfgObject) ==
    CONSTRAINTS_FIELDS
    @@ ACTIVITY_PUB
    @@ ("SERVER_ACTOR_NAME" :> "peertube")
    @@ ("PRIVATE_RSA_KEY_SIZE" :> 2048)
    @@ ("BCRYPT_SALT_SIZE" :> 10)
    @@ ("STATIC_PATHS.PREVIEWS" :> "/static/previews/")
    @@ ("STATIC_PATHS.THUMBNAILS" :> "/static/thumbnails/")
    @@ ("STATIC_PATHS.TORRENTS" :> "/static/torrents/")
    @@ ("STATIC_PATHS.WEBSEED" :> "/static/webseed/")
    @@ ("STATIC_PATHS.AVATARS" :> "/static/avatars/")
    @@ ("STATIC_MAX_AGE" :> "30d")
    @@ ("THUMBNAILS_SIZE" :> [width |-> 200, height |-> 110])
    @@ ("PREVIEWS_SIZE" :> [width |-> 560, height |-> 315])
    @@ ("AVATARS_SIZE" :> [width |-> 120, height |-> 120])
    @@ ("EMBED_SIZE" :> [width |-> 560, height |-> 315])
    @@ ("CACHE.DIRECTORIES.PREVIEWS" :> join(cfgObject["STORAGE.CACHE_DIR"], "previews"))
    @@ ("ACCEPT_HEADERS" :> <<"html", "application/json">> \o POTENTIAL_ACCEPT_HEADERS)
    @@ ("OPENGRAPH_AND_OEMBED_COMMENT" :> "<!-- open graph and oembed tags -->")

---------------------------------------------------------------------------
(* The process environment and the module system *)

\* The installations the model starts from: the environment of the process
\* and the number of files in its configuration directory.
Deployments ==
    {[env |-> [NODE_ENV |-> "", NODE_APP_INSTANCE |-> "", NODE_CONFIG_DIR |-> <<>>],
      files |-> 0],
     [env |-> [NODE_ENV |-> "", NODE_APP_INSTANCE |-> "", NODE_CONFIG_DIR |-> <<>>],
      files |-> 1],
     [env |-> [NODE_ENV |-> "test", NODE_APP_INSTANCE |-> "", NODE_CONFIG_DIR |-> <<>>],
      files |-> 2],
     [env |-> [NODE_ENV |-> "test", NODE_APP_INSTANCE |-> "1",
               NODE_CONFIG_DIR |-> <<"etc", "peertube">>],
      files |-> 3]}

\* directory() of reloadConfig
directory(e) ==
    IF e.NODE_CONFIG_DIR # <<>> THEN e.NODE_CONFIG_DIR ELSE join(root, "config")

\* The files the configuration library may find, in the order it loads them
SourceFiles == <<"default.js", "production.yaml", "local.js">>

\* config.util.getConfigSources() when the directory holds the first n files
Sources(e, n) == [i \in 1..n |-> [name |-> join(directory(e), SourceFiles[i])]]

\* require.resolve('config')
ConfigModule == root \o <<"node_modules", "config", "lib", "config.js">>

\* A module of the application that has nothing to do with the configuration
ServerModule == root \o <<"dist", "server.js">>

IsScript(name) == name[Len(name)] \in {"default.js", "local.js"}

\* What evaluating the configuration library yields: the settings read from
\* the sources on disk, none when there is no source.
Load(diskNow, sources) == IF Len(sources) = 0 THEN <<>> ELSE diskNow

\* The entries require('config') adds to require.cache when it evaluates the
\* library: the library itself and every source that is a script.
Loaded(diskNow, sources) ==
    [f \in {ConfigModule} \cup {sources[i].name : i \in {j \in 1..Len(sources) : IsScript(sources[j].name)}} |->
        IF f = ConfigModule THEN Load(diskNow, sources) ELSE diskNow]

\* require('config'): the cached exports when the library is cached
require(cache, diskNow, sources) ==
    IF ConfigModule \in DOMAIN cache
    THEN [exports |-> cache[ConfigModule], cache |-> cache]
    ELSE [exports |-> Load(diskNow, sources),
          cache |-> Loaded(diskNow, sources) @@ cache]

\* purge() of reloadConfig
purge(cache, e) ==
    [f \in {g \in DOMAIN cache : ~Contains(g, directory(e)) /\ g # ConfigModule} |-> cache[f]]

---------------------------------------------------------------------------
(* CONFIG *)

NoConfig == <<>>

\* getLocalConfigFilePath with the test on the number of sources off by one
getLocalConfigFilePathOffByOne(sources, e) ==
    IF Len(sources) <= 1
    THEN [threw |-> TRUE, error |-> "Invalid config source."]
    ELSE LET local    == <<"local">>
             withEnv  == IF e.NODE_ENV # "" THEN local \o <<"-", e.NODE_ENV>> ELSE local
             filename == IF e.NODE_APP_INSTANCE # ""
                         THEN withEnv \o <<"-", e.NODE_APP_INSTANCE>>
                         ELSE withEnv
         IN  [threw |-> FALSE,
              value |-> join(dirname(sources[1].name), filename \o <<".json">>)]

getLocalConfigFilePath(sources, e) ==
    IF Len(sources) = 0
    THEN [threw |-> TRUE, error |-> "Invalid config source."]
    ELSE LET local    == <<"local">>
             withEnv  == IF e.NODE_ENV # "" THEN local \o <<"-", e.NODE_ENV>> ELSE local
             filename == IF e.NODE_APP_INSTANCE # ""
                         THEN withEnv \o <<"-", e.NODE_APP_INSTANCE>>
                         ELSE withEnv
         IN  [threw |-> FALSE,
              value |-> join(dirname(sources[1].name), filename \o <<".json">>)]

\* The properties of CONFIG that are evaluated when the object is built
EagerConfig(cfg, customFile) ==
    ("CUSTOM_FILE" :> customFile)
    @@ ("LISTEN.PORT" :> get(cfg, "listen.port"))
    @@ ("DATABASE.DBNAME" :> <<"peertube">> \o get(cfg, "database.suffix"))
    @@ ("DATABASE.HOSTNAME" :> get(cfg, "database.hostname"))
    @@ ("DATABASE.PORT" :> get(cfg, "database.port"))
    @@ ("DATABASE.USERNAME" :> get(cfg, "database.username"))
    @@ ("DATABASE.PASSWORD" :> get(cfg, "database.password"))
    @@ ("STORAGE.AVATARS_DIR" :> buildPath(get(cfg, "storage.avatars")))
    @@ ("STORAGE.LOG_DIR" :> buildPath(get(cfg, "storage.logs")))
    @@ ("STORAGE.VIDEOS_DIR" :> buildPath(get(cfg, "storage.videos")))
    @@ ("STORAGE.THUMBNAILS_DIR" :> buildPath(get(cfg, "storage.thumbnails")))
    @@ ("STORAGE.PREVIEWS_DIR" :> buildPath(get(cfg, "storage.previews")))
    @@ ("STORAGE.TORRENTS_DIR" :> buildPath(get(cfg, "storage.torrents")))
    @@ ("STORAGE.CACHE_DIR" :> buildPath(get(cfg, "storage.cache")))
    @@ ("WEBSERVER.SCHEME" :> IF get(cfg, "webserver.https") = TRUE THEN "https" ELSE "http")
    @@ ("WEBSERVER.WS" :> IF get(cfg, "webserver.https") = TRUE THEN "wss" ELSE "ws")
    @@ ("WEBSERVER.HOSTNAME" :> get(cfg, "webserver.hostname"))
    @@ ("WEBSERVER.PORT" :> get(cfg, "webserver.port"))
    @@ ("WEBSERVER.URL" :> <<>>)
    @@ ("WEBSERVER.HOST" :> <<>>)

\* The properties of CONFIG that are getters, and the setting each one reads
Getters ==
    ("ADMIN.EMAIL" :> "admin.email")
    @@ ("SIGNUP.ENABLED" :> "signup.enabled")
    @@ ("SIGNUP.LIMIT" :> "signup.limit")
    @@ ("USER.VIDEO_QUOTA" :> "user.video_quota")
    @@ ("TRANSCODING.ENABLED" :> "transcoding.enabled")
    @@ ("TRANSCODING.THREADS" :> "transcoding.threads")
    @@ ("TRANSCODING.RESOLUTIONS.240p" :> "transcoding.resolutions.240p")
    @@ ("TRANSCODING.RESOLUTIONS.360p" :> "transcoding.resolutions.360p")
    @@ ("TRANSCODING.RESOLUTIONS.480p" :> "transcoding.resolutions.480p")
    @@ ("TRANSCODING.RESOLUTIONS.720p" :> "transcoding.resolutions.720p")
    @@ ("TRANSCODING.RESOLUTIONS.1080p" :> "transcoding.resolutions.1080p")
    @@ ("CACHE.PREVIEWS.SIZE" :> "cache.previews.size")

\* Reading the property `path' of CONFIG
Accessor(path) ==
    IF path \in DOMAIN Getters THEN get(config, Getters[path]) ELSE CONFIG[path]

\* updateWebserverConfig storing the concatenated URL as it is
updateWebserverConfigUnsanitized(cfgObject, constants) ==
    [cfgObject EXCEPT
        !["WEBSERVER.URL"] =
            <<cfgObject["WEBSERVER.SCHEME"]>> \o <<"://">>
            \o <<cfgObject["WEBSERVER.HOSTNAME"]>> \o <<":">>
            \o Digits(cfgObject["WEBSERVER.PORT"]),
        !["WEBSERVER.HOST"] =
            sanitizeHost(<<cfgObject["WEBSERVER.HOSTNAME"]>> \o <<":">>
                         \o Digits(cfgObject["WEBSERVER.PORT"]),
                         constants["REMOTE_SCHEME.HTTP"])]

\* updateWebserverConfig building HOST from the previous HOST
updateWebserverConfigAccumulating(cfgObject, constants) ==
    [cfgObject EXCEPT
        !["WEBSERVER.URL"] =
            sanitizeUrl(<<cfgObject["WEBSERVER.SCHEME"]>> \o <<"://">>
                        \o <<cfgObject["WEBSERVER.HOSTNAME"]>> \o <<":">>
                        \o Digits(cfgObject["WEBSERVER.PORT"])),
        !["WEBSERVER.HOST"] =
            sanitizeHost((IF cfgObject["WEBSERVER.HOST"] = <<>>
                          THEN <<cfgObject["WEBSERVER.HOSTNAME"]>>
                          ELSE cfgObject["WEBSERVER.HOST"])
                         \o <<":">> \o Digits(cfgObject["WEBSERVER.PORT"]),
                         constants["REMOTE_SCHEME.HTTP"])]

\* updateWebserverConfig normalising HOST for the scheme of the webserver
updateWebserverConfigOwnScheme(cfgObject, constants) ==
    [cfgObject EXCEPT
        !["WEBSERVER.URL"] =
            sanitizeUrl(<<cfgObject["WEBSERVER.SCHEME"]>> \o <<"://">>
                        \o <<cfgObject["WEBSERVER.HOSTNAME"]>> \o <<":">>
                        \o Digits(cfgObject["WEBSERVER.PORT"])),
        !["WEBSERVER.HOST"] =
            sanitizeHost(<<cfgObject["WEBSERVER.HOSTNAME"]>> \o <<":">>
                         \o Digits(cfgObject["WEBSERVER.PORT"]),
                         cfgObject["WEBSERVER.SCHEME"])]

updateWebserverConfig(cfgObject, constants) ==
    [cfgObject EXCEPT
        !["WEBSERVER.URL"] =
            sanitizeUrl(<<cfgObject["WEBSERVER.SCHEME"]>> \o <<"://">>
                        \o <<cfgObject["WEBSERVER.HOSTNAME"]>> \o <<":">>
                        \o Digits(cfgObject["WEBSERVER.PORT"])),
        !["WEBSERVER.HOST"] =
            sanitizeHost(<<cfgObject["WEBSERVER.HOSTNAME"]>> \o <<":">>
                         \o Digits(cfgObject["WEBSERVER.PORT"]),
                         constants["REMOTE_SCHEME.HTTP"])]

\* The test-instance block overriding the pagination default as well
TestOverridesAlsoPagination(constants) ==
    [constants EXCEPT
        !["ACTOR_FOLLOW_SCORE.BASE"] = 20,
        !["JOBS_FETCHING_INTERVAL"] = 1000,
        !["REMOTE_SCHEME.HTTP"] = "http",
        !["REMOTE_SCHEME.WS"] = "ws",
        !["STATIC_MAX_AGE"] = "0",
        !["ACTIVITY_PUB.COLLECTION_ITEMS_PER_PAGE"] = 2,
        !["ACTIVITY_PUB.ACTOR_REFRESH_INTERVAL"] = 10 * 1000,
        !["CONSTRAINTS_FIELDS.ACTORS.AVATAR.FILE_SIZE.max"] = 100 * 1024,
        !["SCHEDULER_INTERVAL"] = 10000,
        !["PAGINATION_COUNT_DEFAULT"] = 2]

\* The test-instance block without the assignment of ACTOR_FOLLOW_SCORE.BASE
TestOverridesKeepBase(constants) ==
    [constants EXCEPT
        !["JOBS_FETCHING_INTERVAL"] = 1000,
        !["REMOTE_SCHEME.HTTP"] = "http",
        !["REMOTE_SCHEME.WS"] = "ws",
        !["STATIC_MAX_AGE"] = "0",
        !["ACTIVITY_PUB.COLLECTION_ITEMS_PER_PAGE"] = 2,
        !["ACTIVITY_PUB.ACTOR_REFRESH_INTERVAL"] = 10 * 1000,
        !["CONSTRAINTS_FIELDS.ACTORS.AVATAR.FILE_SIZE.max"] = 100 * 1024,
        !["SCHEDULER_INTERVAL"] = 10000]

\* The assignments of the test-instance block
TestOverrides(constants) ==
    [constants EXCEPT
        !["ACTOR_FOLLOW_SCORE.BASE"] = 20,
        !["JOBS_FETCHING_INTERVAL"] = 1000,
        !["REMOTE_SCHEME.HTTP"] = "http",
        !["REMOTE_SCHEME.WS"] = "ws",
        !["STATIC_MAX_AGE"] = "0",
        !["ACTIVITY_PUB.COLLECTION_ITEMS_PER_PAGE"] = 2,
        !["ACTIVITY_PUB.ACTOR_REFRESH_INTERVAL"] = 10 * 1000,
        !["CONSTRAINTS_FIELDS.ACTORS.AVATAR.FILE_SIZE.max"] = 100 * 1024,
        !["SCHEDULER_INTERVAL"] = 10000]

---------------------------------------------------------------------------
(* The evaluation of the module and the operations on it *)

Init ==
    /\ pc = "CONFIG"
    /\ disk \in Snapshots
    /\ \E d \in Deployments :
           /\ env = d.env
           /\ configSources = Sources(d.env, d.files)
    /\ testInstance \in BOOLEAN
    /\ config = require(<<>>, disk, configSources).exports
    /\ requireCache = require(<<>>, disk, configSources).cache @@ (ServerModule :> "exports")
    /\ consts = EarlyConstants
    /\ tables = EarlyTables
    /\ CONFIG = NoConfig
    /\ reloaded = FALSE

\* const CONFIG = { CUSTOM_FILE: getLocalConfigFilePath(), ... }: the error
\* leaves the module unevaluated.
BuildConfig ==
    /\ pc = "CONFIG"
    /\ LET customFile == getLocalConfigFilePath(configSources, env)
       IN  IF customFile.threw
           THEN /\ pc' = "failed"
                /\ CONFIG' = CONFIG
           ELSE /\ pc' = "statics"
                /\ CONFIG' = EagerConfig(config, customFile.value)
    /\ UNCHANGED <<disk, requireCache, config, configSources, env, testInstance,
                   consts, tables, reloaded>>

DeclareStatics ==
    /\ pc = "statics"
    /\ consts' = LateConstants(CONFIG) @@ consts
    /\ tables' = LateTables @@ tables
    /\ pc' = "testOverride"
    /\ UNCHANGED <<disk, requireCache, config, configSources, env, testInstance,
                   CONFIG, reloaded>>

TestOverride ==
    /\ pc = "testOverride"
    /\ consts' = IF testInstance = TRUE THEN TestOverrides(consts) ELSE consts
    /\ pc' = "updateWebserver"
    /\ UNCHANGED <<disk, requireCache, config, configSources, env, testInstance,
                   tables, CONFIG, reloaded>>

InitialUpdate ==
    /\ pc = "updateWebserver"
    /\ CONFIG' = updateWebserverConfig(CONFIG, consts)
    /\ pc' = "ready"
    /\ UNCHANGED <<disk, requireCache, config, configSources, env, testInstance,
                   consts, tables, reloaded>>

\* reloadConfig evaluating the declarations of the constants again
reloadConfigRedeclaring ==
    /\ pc = "ready"
    /\ LET purged   == purge(requireCache, env)
           required == require(purged, disk, configSources)
       IN  /\ requireCache' = required.cache
           /\ config' = required.exports
    /\ consts' = LateConstants(CONFIG) @@ EarlyConstants
    /\ CONFIG' = updateWebserverConfig(CONFIG, consts')
    /\ reloaded' = TRUE
    /\ UNCHANGED <<pc, disk, configSources, env, testInstance, tables>>

reloadConfig ==
    /\ pc = "ready"
    /\ LET purged   == purge(requireCache, env)
           required == require(purged, disk, configSources)
       IN  /\ requireCache' = required.cache
           /\ config' = required.exports
    /\ CONFIG' = updateWebserverConfig(CONFIG, consts)
    /\ reloaded' = TRUE
    /\ UNCHANGED <<pc, disk, configSources, env, testInstance, consts, tables>>

\* The administrator edits the configuration files. Nothing reads them between
\* line 11 and a reload, so an edit made while the module is evaluated acts as
\* one made right after it.
EditDisk ==
    /\ pc = "ready"
    /\ \E s \in Snapshots \ {disk} : disk' = s
    /\ UNCHANGED <<pc, requireCache, config, configSources, env, testInstance,
                   consts, tables, CONFIG, reloaded>>

Next ==
    \/ BuildConfig
    \/ DeclareStatics
    \/ TestOverride
    \/ InitialUpdate
    \/ reloadConfig
    \/ EditDisk

Spec == Init /\ [][Next]_vars

---------------------------------------------------------------------------
(* What a caller observes, and what it would observe of one snapshot *)

Paths == DOMAIN CONFIG \cup DOMAIN Getters

\* Every property of CONFIG as a caller reads it now
View == [p \in Paths |-> Accessor(p)]

\* Every property of CONFIG as it reads when all of it comes from snapshot s
SnapshotView(s) ==
    LET built == updateWebserverConfig(EagerConfig(s, CONFIG["CUSTOM_FILE"]), consts)
    IN  [p \in Paths |-> IF p \in DOMAIN Getters THEN s[Getters[p]] ELSE built[p]]

DefaultPort(scheme) == IF scheme = "https" THEN 443 ELSE 80

\* scheme://hostname, followed by :port unless the port is the default one
ExpectedUrl(scheme, hostname, port) ==
    IF port = DefaultPort(scheme)
    THEN <<scheme, "://", hostname>>
    ELSE <<scheme, "://", hostname, ":">> \o Digits(port)

\* hostname, followed by :port unless the port is the default one
ExpectedHost(scheme, hostname, port) ==
    IF port = DefaultPort(scheme) THEN <<hostname>> ELSE <<hostname, ":">> \o Digits(port)

SchemeOf(cfg) == IF cfg["webserver.https"] THEN "https" ELSE "http"

\* The constants as the declarations of the module set them
Declared == LateConstants(CONFIG) @@ EarlyConstants

Initialized == pc = "ready"

---------------------------------------------------------------------------
(* Reload *)

\* C1: whenever reloadConfig is not executing, everything a caller reads from
\* CONFIG comes from one and the same configuration snapshot.
C1_ReloadAtomic ==
    Initialized => \E s \in Snapshots : View = SnapshotView(s)

\* C2: once reloadConfig has returned, every property of CONFIG reads as in
\* the configuration that the reload read from disk.
C2_ReloadObserved ==
    (Initialized /\ reloaded) => View = SnapshotView(config)

\* C3: after initialization and after any number of reloads, WEBSERVER.URL and
\* WEBSERVER.HOST are the derivation applied to webserver.https, hostname and
\* port of the configuration that is currently loaded.
C3_DerivedFollowsSnapshot ==
    Initialized =>
        /\ CONFIG["WEBSERVER.URL"] =
               ExpectedUrl(SchemeOf(config), config["webserver.hostname"],
                           config["webserver.port"])
        /\ CONFIG["WEBSERVER.HOST"] =
               ExpectedHost(consts["REMOTE_SCHEME.HTTP"], config["webserver.hostname"],
                            config["webserver.port"])

---------------------------------------------------------------------------
(* The test-instance overrides *)

AfterOverrides == pc \in {"updateWebserver", "ready"}

\* follow-score base, polling intervals, scheme defaults, page sizes, size limits
DocumentedOverrides ==
    {"ACTOR_FOLLOW_SCORE.BASE",
     "JOBS_FETCHING_INTERVAL", "SCHEDULER_INTERVAL", "ACTIVITY_PUB.ACTOR_REFRESH_INTERVAL",
     "REMOTE_SCHEME.HTTP", "REMOTE_SCHEME.WS",
     "ACTIVITY_PUB.COLLECTION_ITEMS_PER_PAGE",
     "CONSTRAINTS_FIELDS.ACTORS.AVATAR.FILE_SIZE.max"}

\* C4 as stated: in a test instance no constant outside the documented set
\* differs from its declared value, the static cache max-age among them.
C4_OnlyDocumentedOverridden ==
    AfterOverrides =>
        LET declared == Declared
        IN  \A k \in DOMAIN consts \ DocumentedOverrides : consts[k] = declared[k]

\* C4, amended: the constants that differ in a test instance are those of the
\* documented set and STATIC_MAX_AGE, each of them differs, the tables do not,
\* and of CONFIG only WEBSERVER.HOST, derived from REMOTE_SCHEME.HTTP, can
\* differ from what an ordinary instance derives; an ordinary instance keeps
\* every declared value.
C4_OverriddenSet ==
    AfterOverrides =>
        LET declared == Declared
            ordinary == updateWebserverConfig(CONFIG, declared)
        IN  /\ \A k \in DOMAIN consts \ (DocumentedOverrides \cup {"STATIC_MAX_AGE"}) :
                   consts[k] = declared[k]
            /\ \A k \in DocumentedOverrides \cup {"STATIC_MAX_AGE"} :
                   (consts[k] # declared[k]) <=> testInstance
            /\ tables = LateTables @@ EarlyTables
            /\ Initialized =>
                   \A p \in DOMAIN CONFIG \ {"WEBSERVER.HOST"} : CONFIG[p] = ordinary[p]

C4_Witness ==
    /\ Initialized
    /\ testInstance
    /\ consts["STATIC_MAX_AGE"] = "0"
    /\ consts["PAGINATION_COUNT_DEFAULT"] = 15
    /\ CONFIG["WEBSERVER.HOST"] # updateWebserverConfig(CONFIG, Declared)["WEBSERVER.HOST"]

\* C5: after initialization, reloads included, ACTOR_FOLLOW_SCORE.BASE reads 20
\* in a test instance and 1000 otherwise.
C5_FollowScoreBase ==
    Initialized =>
        consts["ACTOR_FOLLOW_SCORE.BASE"] = (IF testInstance THEN 20 ELSE 1000)

C5_Witness ==
    /\ Initialized
    /\ reloaded
    /\ testInstance
    /\ consts["ACTOR_FOLLOW_SCORE.BASE"] = 20

---------------------------------------------------------------------------
(* Start-up *)

\* C6: without a configuration source the evaluation of the module ends in the
\* error before any property of CONFIG exists, before the later constants are
\* declared, before the overrides and before the derivation; with a source it
\* never ends in the error.
C6_NoSourceIsFatal ==
    /\ Len(configSources) = 0 =>
           /\ pc \in {"CONFIG", "failed"}
           /\ DOMAIN CONFIG = {}
           /\ consts = EarlyConstants
           /\ tables = EarlyTables
    /\ Len(configSources) > 0 => pc # "failed"
    /\ pc = "failed" => getLocalConfigFilePath(configSources, env).error = "Invalid config source."

C6_Witness ==
    /\ pc = "failed"
    /\ Len(configSources) = 0
    /\ DOMAIN CONFIG = {}

---------------------------------------------------------------------------
(* The derived URL and host *)

\* C7: WEBSERVER.URL is scheme://hostname when the port is the default one of
\* the webserver's scheme and scheme://hostname:port otherwise, without a
\* trailing slash; http, example.com and 80 give http://example.com. Until a
\* reload, scheme, hostname and port are those of the loaded configuration.
C7_UrlOmitsDefaultPort ==
    Initialized =>
        LET scheme   == CONFIG["WEBSERVER.SCHEME"]
            hostname == CONFIG["WEBSERVER.HOSTNAME"]
            port     == CONFIG["WEBSERVER.PORT"]
            url      == CONFIG["WEBSERVER.URL"]
        IN  /\ url = ExpectedUrl(scheme, hostname, port)
            /\ url[Len(url)] # "/"
            /\ (scheme = "http" /\ hostname = "example.com" /\ port = 80)
                   => url = <<"http", "://", "example.com">>
            /\ ~reloaded =>
                   /\ scheme = SchemeOf(config)
                   /\ hostname = config["webserver.hostname"]
                   /\ port = config["webserver.port"]

C7_Witness ==
    /\ Initialized
    /\ ~reloaded
    /\ config["webserver.https"] = FALSE
    /\ config["webserver.hostname"] = "example.com"
    /\ config["webserver.port"] = 80
    /\ CONFIG["WEBSERVER.URL"] = <<"http", "://", "example.com">>

C10_HostUsesRemoteScheme ==
    Initialized =>
        LET remote == IF testInstance THEN "http" ELSE "https"
        IN  /\ consts["REMOTE_SCHEME.HTTP"] = remote
            /\ CONFIG["WEBSERVER.HOST"] =
                   ExpectedHost(remote, CONFIG["WEBSERVER.HOSTNAME"], CONFIG["WEBSERVER.PORT"])

\* an http webserver on port 443 outside a test instance: HOST omits the port
\* that URL keeps
C10_Witness ==
    /\ Initialized
    /\ ~testInstance
    /\ CONFIG["WEBSERVER.SCHEME"] = "http"
    /\ CONFIG["WEBSERVER.PORT"] = 443
    /\ CONFIG["WEBSERVER.HOST"] = <<CONFIG["WEBSERVER.HOSTNAME"]>>
    /\ CONFIG["WEBSERVER.URL"] = <<"http", "://", CONFIG["WEBSERVER.HOSTNAME"], ":", "4", "4", "3">>

---------------------------------------------------------------------------
(* The tables *)

\* as many different keys as entries
NoDuplicateKeys ==
    \A t \in DOMAIN tables :
        Cardinality({tables[t][i][1] : i \in 1..Len(tables[t])}) = Len(tables[t])

\* C9: no enumeration table has a key twice, and once the module is evaluated
\* no step changes a table or another constant.
C9_TablesStable ==
    [][/\ NoDuplicateKeys
       /\ Initialized => (tables' = tables /\ consts' = consts)]_vars

C9_Witness ==
    /\ Initialized
    /\ reloaded
    /\ testInstance
    /\ tables = LateTables @@ EarlyTables
    /\ Len(tables["VIDEO_CATEGORIES"]) = 18

====
